---- MODULE Spec2Model ----
(***************************************************************************)
(* Model of the systemd-service crate (src/src/lib.rs, utils.rs, error.rs). *)
(*                                                                         *)
(* Three specifications share the variables:                               *)
(*   SpecGen  the ServiceConfig builder followed by SystemdService::new    *)
(*            and generate(): every configuration the public fields and    *)
(*            the setters can produce, within the value sets below.        *)
(*   Spec     a SystemdService whose caller invokes generate, write,       *)
(*            install_and_enable, enable, start and reload_systemd, one    *)
(*            call after the other, against a file system, an effective    *)
(*            user id and the systemctl control plane.  The methods that   *)
(*            install_and_enable calls one after the other are separate    *)
(*            actions, pc telling where the caller stands between them.    *)
(*   SpecEnv  Spec with the rest of the system acting between any two      *)
(*            steps: the effective user id changes, another process        *)
(*            creates a file.                                              *)
(*                                                                         *)
(* Option<T> is a sequence of length at most one: None is <<>> and Some(v) *)
(* is <<v>>.  A String is a TLA+ string.  The generated text is the        *)
(* sequence of its lines, each line being the characters before its "\n".  *)
(* A line "Key=value" is kept as the pair <<"Key=", "value">>, a line      *)
(* without "=" (a section header) as <<"[Unit]">> and the empty line as    *)
(* <<>>.  Field values are single-line strings: none of the value sets     *)
(* below holds a string with a line feed in it.                            *)
(***************************************************************************)
EXTENDS Integers, Sequences, FiniteSets, TLC

VARIABLES
    config,     \* the ServiceConfig being built, then owned by the manager
    phase,      \* "building" (ServiceConfig value) or "managed" (SystemdService)
    euid,       \* effective user id of the process, geteuid()
    fs,         \* file system: path -> None or Some(lines of the file)
    systemd,    \* control plane: what daemon-reload / enable / start achieved
    pc,         \* position of the caller inside the current call
    top,        \* the method the caller invoked
    path,       \* the path argument of write / the path install resolved
    content,    \* the local `content` handed to write_service_file
    log,        \* effects of the current call, in order
    steps,      \* results of the methods completed inside the current call
    pre,        \* fs as it was when the current call was invoked
    ret,        \* the Result<(), Error> the last call returned
    text        \* the String the last generate() returned

vars == <<config, phase, euid, fs, systemd, pc, top, path, content, log, steps, pre, ret, text>>

env_vars == <<euid, fs, systemd>>
call_vars == <<pc, top, path, content, log, steps, pre, ret>>

----------------------------------------------------------------------------
(* Bounds and value sets *)

MaxEnv == 2
MaxAfter == 2

None == <<>>
Some(v) == <<v>>
IsSome(o) == o # <<>>
Unwrap(o) == o[1]

SeqsUpTo(S, n) == UNION {[1..k -> S] : k \in 0..n}

Names == {"myapp"}
Texts == {"Minimal Service", "/usr/bin/sleep infinity"}
Dirs == {"/var/lib/myapp"}
Users == {"myapp-user"}
Groups == {"myapp-group"}
RestartPolicies == {"on-failure"}
RestartSecs == {10}
Targets == {"graphical.target"}
LogFiles == {"/var/log/myapp.log"}
EnvPairs == {<<"RUST_LOG", "info">>, <<"PORT", "8080">>}
AfterNames == {"network.target", "postgresql.service"}

----------------------------------------------------------------------------
(* ServiceConfig: lib.rs 71-188 *)

\* Default without the documented restart delay
ServiceConfig_default_no_delay ==
    [ name              |-> "",
      description       |-> "",
      exec_start        |-> "",
      working_directory |-> None,
      user              |-> None,
      group             |-> None,
      restart           |-> Some("always"),
      restart_sec       |-> None,
      wanted_by         |-> Some("multi-user.target"),
      environment       |-> None,
      after             |-> None,
      log_file          |-> None ]

ServiceConfig_default ==
    [ name              |-> "",
      description       |-> "",
      exec_start        |-> "",
      working_directory |-> None,
      user              |-> None,
      group             |-> None,
      restart           |-> Some("always"),
      restart_sec       |-> Some(5),
      wanted_by         |-> Some("multi-user.target"),
      environment       |-> None,
      after             |-> None,
      log_file          |-> None ]

\* ServiceConfig::new(name, exec_start, description)
ServiceConfig_new(name, exec_start, description) ==
    [ServiceConfig_default EXCEPT !.name = name,
                                  !.description = description,
                                  !.exec_start = exec_start]

OptionalFields ==
    {"working_directory", "user", "group", "restart", "restart_sec",
     "wanted_by", "environment", "after", "log_file"}

----------------------------------------------------------------------------
(* SystemdService::generate: lib.rs 205-266 *)

KV(key, value) == <<key, value>>
Header(h) == <<h>>
Blank == <<>>

\* [String]::join(sep)
RECURSIVE join(_, _)
join(s, sep) ==
    IF Len(s) = 0 THEN ""
    ELSE IF Len(s) = 1 THEN s[1]
    ELSE s[1] \o sep \o join(Tail(s), sep)

\* Vec::dedup: consecutive equal pairs collapsed into one
RECURSIVE Dedup(_)
Dedup(env) ==
    IF Len(env) <= 1 THEN env
    ELSE IF env[1] = env[2] THEN Dedup(Tail(env))
    ELSE << env[1] >> \o Dedup(Tail(env))

\* the loop run over a deduplicated environment
EnvLines_dedup(env) ==
    [i \in 1..Len(Dedup(env)) |->
        KV("Environment=", "\"" \o Dedup(env)[i][1] \o "=" \o Dedup(env)[i][2] \o "\"")]

\* the `for (key, value) in environment` loop
EnvLines(env) ==
    [i \in 1..Len(env) |->
        KV("Environment=", "\"" \o env[i][1] \o "=" \o env[i][2] \o "\"")]

\* UnitSection without the !after.is_empty() test
UnitSection_empty_after(c) ==
       << Header("[Unit]"), KV("Description=", c.description) >>
    \o (IF IsSome(c.after)
          THEN << KV("After=", join(Unwrap(c.after), " ")) >> ELSE << >>)
    \o << Blank >>

\* lib.rs 208-218: "[Unit]", Description, After, the empty line
UnitSection(c) ==
       << Header("[Unit]"), KV("Description=", c.description) >>
    \o (IF IsSome(c.after) /\ Len(Unwrap(c.after)) # 0
          THEN << KV("After=", join(Unwrap(c.after), " ")) >> ELSE << >>)
    \o << Blank >>

\* ServiceSection with the StandardError line pushed outside the
\* `if let Some(log_file)` block
ServiceSection_stderr_always(c) ==
       << Header("[Service]") >>
    \o (IF IsSome(c.working_directory)
          THEN << KV("WorkingDirectory=", Unwrap(c.working_directory)) >> ELSE << >>)
    \o (IF IsSome(c.user) THEN << KV("User=", Unwrap(c.user)) >> ELSE << >>)
    \o (IF IsSome(c.group) THEN << KV("Group=", Unwrap(c.group)) >> ELSE << >>)
    \o (IF IsSome(c.restart) THEN << KV("Restart=", Unwrap(c.restart)) >> ELSE << >>)
    \o (IF IsSome(c.restart_sec)
          THEN << KV("RestartSec=", ToString(Unwrap(c.restart_sec))) >> ELSE << >>)
    \o << KV("ExecStart=", c.exec_start) >>
    \o (IF IsSome(c.log_file)
          THEN << KV("StandardOutput=", "append:" \o Unwrap(c.log_file)) >> ELSE << >>)
    \o << KV("StandardError=", "inherit") >>
    \o (IF IsSome(c.environment) /\ Len(Unwrap(c.environment)) # 0
          THEN EnvLines(Unwrap(c.environment)) ELSE << >>)
    \o << Blank >>

\* lib.rs 220-257: "[Service]" and its lines, the empty line
ServiceSection(c) ==
       << Header("[Service]") >>
    \o (IF IsSome(c.working_directory)
          THEN << KV("WorkingDirectory=", Unwrap(c.working_directory)) >> ELSE << >>)
    \o (IF IsSome(c.user) THEN << KV("User=", Unwrap(c.user)) >> ELSE << >>)
    \o (IF IsSome(c.group) THEN << KV("Group=", Unwrap(c.group)) >> ELSE << >>)
    \o (IF IsSome(c.restart) THEN << KV("Restart=", Unwrap(c.restart)) >> ELSE << >>)
    \o (IF IsSome(c.restart_sec)
          THEN << KV("RestartSec=", ToString(Unwrap(c.restart_sec))) >> ELSE << >>)
    \o << KV("ExecStart=", c.exec_start) >>
    \o (IF IsSome(c.log_file)
          THEN << KV("StandardOutput=", "append:" \o Unwrap(c.log_file)),
                  KV("StandardError=", "inherit") >>
          ELSE << >>)
    \o (IF IsSome(c.environment) /\ Len(Unwrap(c.environment)) # 0
          THEN EnvLines(Unwrap(c.environment)) ELSE << >>)
    \o << Blank >>

\* InstallSection that leaves the section out when it would be empty
InstallSection_skipped_when_empty(c) ==
    IF IsSome(c.wanted_by)
      THEN << Header("[Install]"), KV("WantedBy=", Unwrap(c.wanted_by)) >>
      ELSE << >>

\* lib.rs 259-263: "[Install]", WantedBy
InstallSection(c) ==
       << Header("[Install]") >>
    \o (IF IsSome(c.wanted_by) THEN << KV("WantedBy=", Unwrap(c.wanted_by)) >> ELSE << >>)

\* generate pushing onto the String of the call before instead of a fresh one
generate_reused_buffer(c) ==
    (IF IsSome(text) THEN Unwrap(text) ELSE << >>)
    \o UnitSection(c) \o ServiceSection(c) \o InstallSection(c)

\* lib.rs 205-266: a fresh String, the three sections pushed onto it
generate(c) == UnitSection(c) \o ServiceSection(c) \o InstallSection(c)

----------------------------------------------------------------------------
(* Results: error.rs 3-13 *)

Ok == [kind |-> "Ok", msg |-> ""]
Err(kind, msg) == [kind |-> kind, msg |-> msg]
NoResult == [kind |-> "none", msg |-> ""]

\* impl From<std::io::Error> for Error
from_io_error(value) == Err("Io", value)

----------------------------------------------------------------------------
(* The builder: ServiceConfig setters, lib.rs 135-188.  Each consumes the   *)
(* value and returns it with one field replaced.                          *)

\* self.working_directory = Some(dir.to_string()); self
ServiceConfig_working_directory(self, dir) == [self EXCEPT !.working_directory = Some(dir)]

\* self.user = Some(user.to_string()); self
ServiceConfig_user(self, u) == [self EXCEPT !.user = Some(u)]

\* self.group = Some(group.to_string()); self
ServiceConfig_group(self, g) == [self EXCEPT !.group = Some(g)]

\* self.restart = Some(restart.to_string()); self
ServiceConfig_restart(self, r) == [self EXCEPT !.restart = Some(r)]

\* self.restart_sec = Some(sec); self
ServiceConfig_restart_sec(self, sec) == [self EXCEPT !.restart_sec = Some(sec)]

\* self.wanted_by = Some(target.to_string()); self
ServiceConfig_wanted_by(self, target) == [self EXCEPT !.wanted_by = Some(target)]

\* environment adding its pairs to those already set
ServiceConfig_environment_extend(self, env) ==
    [self EXCEPT !.environment =
        Some((IF IsSome(self.environment) THEN Unwrap(self.environment) ELSE << >>) \o env)]

\* self.environment = Some(env); self
ServiceConfig_environment(self, env) == [self EXCEPT !.environment = Some(env)]

\* self.after = Some(after); self
ServiceConfig_after(self, a) == [self EXCEPT !.after = Some(a)]

\* self.log_file = Some(file_path.to_string()); self
ServiceConfig_log_file(self, file_path) == [self EXCEPT !.log_file = Some(file_path)]

\* let config = config.<setter>(value);

working_directory ==
    /\ phase = "building"
    /\ \E dir \in Dirs : config' = ServiceConfig_working_directory(config, dir)
    /\ UNCHANGED <<phase, env_vars, call_vars, text>>

user ==
    /\ phase = "building"
    /\ \E u \in Users : config' = ServiceConfig_user(config, u)
    /\ UNCHANGED <<phase, env_vars, call_vars, text>>

group ==
    /\ phase = "building"
    /\ \E g \in Groups : config' = ServiceConfig_group(config, g)
    /\ UNCHANGED <<phase, env_vars, call_vars, text>>

restart ==
    /\ phase = "building"
    /\ \E r \in RestartPolicies : config' = ServiceConfig_restart(config, r)
    /\ UNCHANGED <<phase, env_vars, call_vars, text>>

restart_sec ==
    /\ phase = "building"
    /\ \E sec \in RestartSecs : config' = ServiceConfig_restart_sec(config, sec)
    /\ UNCHANGED <<phase, env_vars, call_vars, text>>

wanted_by ==
    /\ phase = "building"
    /\ \E target \in Targets : config' = ServiceConfig_wanted_by(config, target)
    /\ UNCHANGED <<phase, env_vars, call_vars, text>>

environment ==
    /\ phase = "building"
    /\ \E env \in SeqsUpTo(EnvPairs, MaxEnv) :
           config' = ServiceConfig_environment(config, env)
    /\ UNCHANGED <<phase, env_vars, call_vars, text>>

after ==
    /\ phase = "building"
    /\ \E a \in SeqsUpTo(AfterNames, MaxAfter) :
           config' = ServiceConfig_after(config, a)
    /\ UNCHANGED <<phase, env_vars, call_vars, text>>

log_file ==
    /\ phase = "building"
    /\ \E file_path \in LogFiles : config' = ServiceConfig_log_file(config, file_path)
    /\ UNCHANGED <<phase, env_vars, call_vars, text>>

\* The fields of ServiceConfig are pub: a caller may also assign None to any
\* Option field (lib.rs 79-95), which no setter can do.
assign_None ==
    /\ phase = "building"
    /\ \E f \in OptionalFields : config' = [config EXCEPT ![f] = None]
    /\ UNCHANGED <<phase, env_vars, call_vars, text>>

\* SystemdService::new(config): the manager takes the configuration over.
SystemdService_new ==
    /\ phase = "building"
    /\ phase' = "managed"
    /\ UNCHANGED <<config, env_vars, call_vars, text>>

----------------------------------------------------------------------------
(* Calls of the manager.  A call starts at pc = "idle" and ends there.     *)

\* let service_content = systemd.generate();
call_generate ==
    /\ phase = "managed"
    /\ pc = "idle"
    /\ top' = "generate"
    /\ text' = Some(generate(config))
    /\ log' = <<>>
    /\ steps' = <<>>
    /\ pre' = fs
    /\ ret' = NoResult
    /\ UNCHANGED <<config, phase, env_vars, pc, path, content>>

----------------------------------------------------------------------------
(* SpecGen: build any configuration, wrap it, generate. *)

NoFiles == [p \in {"/etc/systemd/system/myapp.service", "/tmp/myapp.service"} |-> None]

InitGen ==
    /\ \E name \in Names, a \in Texts, b \in Texts :
           config = ServiceConfig_new(name, a, b)
    /\ phase = "building"
    /\ euid = 1000
    /\ fs = NoFiles
    /\ systemd = [loaded |-> FALSE, enabled |-> FALSE, active |-> FALSE]
    /\ pc = "idle"
    /\ top = "none"
    /\ path = ""
    /\ content = <<>>
    /\ log = <<>>
    /\ steps = <<>>
    /\ pre = fs
    /\ ret = NoResult
    /\ text = None

NextGen ==
    \/ working_directory
    \/ user
    \/ group
    \/ restart
    \/ restart_sec
    \/ wanted_by
    \/ environment
    \/ after
    \/ log_file
    \/ assign_None
    \/ SystemdService_new
    \/ call_generate

SpecGen == InitGen /\ [][NextGen]_vars

----------------------------------------------------------------------------
(* The environment of the manager *)

\* format!("/etc/systemd/system/{}.service", self.config.name)
ServicePath(name) == "/etc/systemd/system/" \o name \o ".service"

OtherPath == "/tmp/myapp.service"
Paths == {ServicePath(n) : n \in Names} \cup {OtherPath}

\* a unit file somebody else installed earlier
OldUnit == << Header("[Unit]"), KV("Description=", "old") >>

\* what std::io::Error::to_string() may say
IoErrors == {"Permission denied (os error 13)", "No space left on device (os error 28)"}

\* Command::status(): the spawn fails, or the child ends with an ExitStatus
SpawnError == [tag |-> "spawn_error", code |-> 2]
CommandOutcomes ==
    { SpawnError,
      [tag |-> "exited", code |-> 0],
      [tag |-> "exited", code |-> 1],
      [tag |-> "signaled", code |-> 9] }

\* ExitStatus::success()
success(status) == status.tag = "exited" /\ status.code = 0

\* utils.rs: geteuid() == 0.  (Built for a non-unix target is_root() is the
\* constant false: the euid # 0 case.)
is_root == euid = 0

\* validate_root_privileges with the check left out
validate_root_privileges_unchecked == Ok

\* validate_root_privileges answering from the first check of the call
\* instead of asking is_root() again
validate_root_privileges_once_per_call ==
    IF \E i \in 1..Len(log) : log[i][1] = "is_root"
      THEN IF \E i \in 1..Len(log) : log[i] = <<"is_root", "true">> /\
                 \A j \in 1..(i - 1) : log[j][1] # "is_root"
             THEN Ok
             ELSE Err("Permission", "need root privileges")
      ELSE IF ~is_root THEN Err("Permission", "need root privileges") ELSE Ok

\* lib.rs 385-390
validate_root_privileges ==
    IF ~is_root THEN Err("Permission", "need root privileges") ELSE Ok

BoolStr(b) == IF b THEN "true" ELSE "false"

\* the entry of `log` for what Command::status() came back with
StatusOf(status) == <<"status", status.tag, ToString(status.code)>>

\* the entry of `log` for an evaluation of is_root()
IsRootCall == <<"is_root", BoolStr(is_root)>>

\* a `?` that goes through a conversion into the Io kind
propagate_as_io(e) == Err("Io", e.msg)

\* the `?` operator on a Result<_, Error>: From<Error> for Error is the
\* identity, the error is handed to the caller as it is
propagate(e) == e

----------------------------------------------------------------------------
(* Calls and returns *)

Methods == {"write", "install_and_enable", "enable", "start", "reload_systemd"}

\* the caller invokes a method of the manager
invoke ==
    /\ phase = "managed"
    /\ pc = "idle"
    /\ \E m \in Methods, p \in Paths :
          /\ top' = m
          /\ pc' = m
          /\ path' = IF m = "write" THEN p ELSE ""
    /\ content' = <<>>
    /\ log' = <<>>
    /\ steps' = <<>>
    /\ pre' = fs
    /\ ret' = NoResult
    /\ UNCHANGED <<config, phase, env_vars, text>>

\* Returned with the `?` after reload_systemd() left out: its error is dropped
\* and install_and_enable goes on to enable
Returned_reload_ignored(fn, r, effects) ==
    /\ steps' = Append(steps, [fn |-> fn, res |-> r])
    /\ log' = log \o effects
    /\ IF top = fn \/ (r.kind # "Ok" /\ fn # "reload_systemd") \/ fn = "enable"
         THEN pc' = "idle" /\ ret' = r
         ELSE /\ ret' = ret
              /\ pc' = IF fn = "get_service_file_path" THEN "write"
                        ELSE IF fn = "write" THEN "reload_systemd" ELSE "enable"

\* Returned with install_and_enable going on to start() after enable()
Returned_auto_start(fn, r, effects) ==
    /\ steps' = Append(steps, [fn |-> fn, res |-> r])
    /\ log' = log \o effects
    /\ IF top = fn \/ r.kind # "Ok" \/ fn = "start"
         THEN pc' = "idle" /\ ret' = r
         ELSE /\ ret' = ret
              /\ pc' = IF fn = "get_service_file_path" THEN "write"
                        ELSE IF fn = "write" THEN "reload_systemd"
                        ELSE IF fn = "reload_systemd" THEN "enable" ELSE "start"

\* Returned with a failed step attempted a second time before its error is
\* passed on
Returned_retry_once(fn, r, effects) ==
    /\ steps' = Append(steps, [fn |-> fn, res |-> r])
    /\ log' = log \o effects
    /\ IF r.kind # "Ok" /\ ~(\E i \in 1..Len(steps) : steps[i].fn = fn)
         THEN pc' = pc /\ ret' = ret
         ELSE IF r.kind # "Ok" \/ top = fn \/ fn = "enable"
         THEN pc' = "idle" /\ ret' = r
         ELSE /\ ret' = ret
              /\ pc' = IF fn = "get_service_file_path" THEN "write"
                        ELSE IF fn = "write" THEN "reload_systemd" ELSE "enable"

\* Method fn has returned r to its caller, having had the effects `effects`.
\* Called directly, r is the result of the call.  Called by
\* install_and_enable (lib.rs 290-305), an Err leaves install_and_enable
\* through `?` and an Ok lets it go on with its next step; after enable it
\* prints and returns Ok.  (The two messages the source prints in Chinese
\* are written here as the source's comments translate them.)
Returned(fn, r, effects) ==
    /\ steps' = Append(steps, [fn |-> fn, res |-> r])
    /\ IF r.kind # "Ok"
         THEN /\ pc' = "idle"
              /\ ret' = IF top = fn THEN r ELSE propagate(r)
              /\ log' = log \o effects
         ELSE IF top = fn
         THEN /\ pc' = "idle"
              /\ ret' = Ok
              /\ log' = log \o effects
         ELSE IF fn = "get_service_file_path"
         THEN /\ pc' = "write"
              /\ ret' = ret
              /\ log' = log \o effects
         ELSE IF fn = "write"
         THEN /\ pc' = "reload_systemd"
              /\ ret' = ret
              /\ log' = log \o effects
         ELSE IF fn = "reload_systemd"
         THEN /\ pc' = "enable"
              /\ ret' = ret
              /\ log' = log \o effects
         ELSE /\ pc' = "idle"
              /\ ret' = Ok
              /\ log' = log \o effects
                     \o << <<"println", "Service '" \o config.name \o "' installed and enabled">> >>

\* get_service_file_path without the exists() test
get_service_file_path_unguarded ==
    /\ pc = "install_and_enable"
    /\ Returned("get_service_file_path", Ok, <<>>)
    /\ path' = ServicePath(config.name)
    /\ UNCHANGED <<config, phase, env_vars, top, content, pre, text>>

\* lib.rs 356-363, the first statement of install_and_enable
get_service_file_path ==
    /\ pc = "install_and_enable"
    /\ LET p == ServicePath(config.name) IN
         IF IsSome(fs[p])
           THEN /\ Returned("get_service_file_path", Err("Io", "Service file exists"), <<>>)
                /\ path' = path
           ELSE /\ Returned("get_service_file_path", Ok, <<>>)
                /\ path' = p
    /\ UNCHANGED <<config, phase, env_vars, top, content, pre, text>>

\* write_service_file opening the file for append instead of truncating it
write_service_file_append(cont, p, created, written, err) ==
    IF ~created
      THEN /\ fs' = fs
           /\ Returned("write", from_io_error(err), << IsRootCall >>)
      ELSE IF written < Len(cont)
      THEN /\ fs' = [fs EXCEPT ![p] = Some((IF IsSome(fs[p]) THEN Unwrap(fs[p]) ELSE << >>)
                                             \o SubSeq(cont, 1, written))]
           /\ Returned("write", from_io_error(err),
                       << IsRootCall, <<"File::create", p>>, <<"write_all", p>> >>)
      ELSE /\ fs' = [fs EXCEPT ![p] = Some((IF IsSome(fs[p]) THEN Unwrap(fs[p]) ELSE << >>) \o cont)]
           /\ Returned("write", Ok,
                       << IsRootCall, <<"File::create", p>>, <<"write_all", p>>,
                          <<"println", "Service file created: " \o p>> >>)

\* lib.rs 396-401: File::create(path)?.write_all(content.as_bytes())?; println!
\*   created = FALSE: File::create fails, nothing is touched
\*   written < Len(cont): create truncated the file, write_all failed after
\*                        `written` lines
write_service_file(cont, p, created, written, err) ==
    IF ~created
      THEN /\ fs' = fs
           /\ Returned("write", from_io_error(err), << IsRootCall >>)
      ELSE IF written < Len(cont)
      THEN /\ fs' = [fs EXCEPT ![p] = Some(SubSeq(cont, 1, written))]
           /\ Returned("write", from_io_error(err),
                       << IsRootCall, <<"File::create", p>>, <<"write_all", p>> >>)
      ELSE /\ fs' = [fs EXCEPT ![p] = Some(cont)]
           /\ Returned("write", Ok,
                       << IsRootCall, <<"File::create", p>>, <<"write_all", p>>,
                          <<"println", "Service file created: " \o p>> >>)

\* how far write_all got: nothing, one line, all but the last line, everything
PartialWrites(cont) == {0, 1, Len(cont) - 1, Len(cont)}

\* lib.rs 273-277
write ==
    /\ pc = "write"
    /\ IF validate_root_privileges.kind # "Ok"
         THEN /\ Returned("write", validate_root_privileges, << IsRootCall >>)
              /\ UNCHANGED <<fs, content>>
         ELSE /\ content' = generate(config)
              /\ \E created \in BOOLEAN, written \in PartialWrites(generate(config)), err \in IoErrors :
                    write_service_file(generate(config), path, created, written, err)
    /\ UNCHANGED <<config, phase, euid, systemd, top, path, pre, text>>

\* The body shared by enable, start and reload_systemd:
\*   validate_root_privileges()?;
\*   let status = Command::new("systemctl").arg(..).status()?;
\*   if !status.success() { return Err(Error::Command(..)); }
\*   println!(..); Ok(())
systemctl(fn, args, status, failed, done, achieved) ==
    IF validate_root_privileges.kind # "Ok"
      THEN /\ Returned(fn, validate_root_privileges, << IsRootCall >>)
           /\ systemd' = systemd
      ELSE IF status.tag = "spawn_error"
      THEN /\ Returned(fn, from_io_error("No such file or directory (os error 2)"),
                       << IsRootCall, <<"systemctl">> \o args, StatusOf(status) >>)
           /\ systemd' = systemd
      ELSE IF ~success(status)
      THEN /\ Returned(fn, Err("Command", failed),
                       << IsRootCall, <<"systemctl">> \o args, StatusOf(status) >>)
           /\ systemd' = systemd
      ELSE /\ Returned(fn, Ok,
                       << IsRootCall, <<"systemctl">> \o args, StatusOf(status),
                          <<"println", done>> >>)
           /\ systemd' = [systemd EXCEPT ![achieved] = TRUE]

\* lib.rs 311-327
enable ==
    /\ pc = "enable"
    /\ \E status \in CommandOutcomes :
          systemctl("enable", <<"enable", config.name>>, status,
                    "enable '" \o config.name \o "' failed",
                    "Service '" \o config.name \o "' enabled", "enabled")
    /\ UNCHANGED <<config, phase, euid, fs, top, path, content, pre, text>>

\* lib.rs 334-350
start ==
    /\ pc = "start"
    /\ \E status \in CommandOutcomes :
          systemctl("start", <<"start", config.name>>, status,
                    "start '" \o config.name \o "' failed",
                    "Service '" \o config.name \o "' start", "active")
    /\ UNCHANGED <<config, phase, euid, fs, top, path, content, pre, text>>

\* lib.rs 368-378
reload_systemd ==
    /\ pc = "reload_systemd"
    /\ \E status \in CommandOutcomes :
          systemctl("reload_systemd", <<"daemon-reload">>, status,
                    "systemctl daemon-reload failed",
                    "systemd reloaded", "loaded")
    /\ UNCHANGED <<config, phase, euid, fs, top, path, content, pre, text>>

----------------------------------------------------------------------------
(* Spec: a manager and its caller *)

\* test_minimal_service, the crate's example, and one with a log file
ManagedConfigs ==
    { ServiceConfig_new("myapp", "/usr/bin/sleep infinity", "Minimal Service"),
      [ServiceConfig_new("myapp", "/usr/local/bin/myapp --run", "My Application Service")
          EXCEPT !.user = Some("myapp-user"),
                 !.after = Some(<<"network.target">>),
                 !.environment = Some(<< <<"PORT", "8080">> >>)],
      [ServiceConfig_new("myapp", "/usr/bin/sleep infinity", "Minimal Service")
          EXCEPT !.log_file = Some("/var/log/myapp.log"),
                 !.restart = None] }

Init ==
    /\ config \in ManagedConfigs
    /\ phase = "managed"
    /\ euid \in {0, 1000}
    /\ fs \in [Paths -> {None, Some(OldUnit)}]
    /\ systemd = [loaded |-> FALSE, enabled |-> FALSE, active |-> FALSE]
    /\ pc = "idle"
    /\ top = "none"
    /\ path = ""
    /\ content = <<>>
    /\ log = <<>>
    /\ steps = <<>>
    /\ pre = fs
    /\ ret = NoResult
    /\ text = None

Next ==
    \/ invoke
    \/ call_generate
    \/ get_service_file_path
    \/ write
    \/ reload_systemd
    \/ enable
    \/ start

Spec == Init /\ [][Next]_vars

----------------------------------------------------------------------------
(* SpecEnv: the same manager and caller, with the rest of the system free   *)
(* to act between any two steps of a call.                                 *)

\* The effective user id changes under the caller (another thread of the
\* process calls seteuid): is_root() reads geteuid() anew each time it is
\* called (utils.rs 8).
seteuid ==
    /\ \E id \in {0, 1000} : id # euid /\ euid' = id
    /\ UNCHANGED <<config, phase, fs, systemd, call_vars, text>>

\* Another process, or another manager with the same unit name, creates a
\* file where there is none: Path::exists (lib.rs 358) and File::create
\* (lib.rs 397) look at the file system as it is when they run.
other_creates ==
    /\ \E p \in Paths : fs[p] = None /\ fs' = [fs EXCEPT ![p] = Some(OldUnit)]
    /\ UNCHANGED <<config, phase, euid, systemd, call_vars, text>>

NextEnv ==
    \/ Next
    \/ seteuid
    \/ other_creates

SpecEnv == Init /\ [][NextEnv]_vars

----------------------------------------------------------------------------
(* Properties *)

InstallPath == ServicePath(config.name)
Gated == {"write", "enable", "start", "reload_systemd"}
EffectTags == {"File::create", "write_all", "systemctl", "println"}
Performed(tag) == \E i \in 1..Len(log) : log[i][1] = tag
PermissionError == Err("Permission", "need root privileges")

\* C1: while is_root() reports false, write, enable, start and reload_systemd
\* each return Error::Permission (called directly or as a step of
\* install_and_enable), and the call creates or truncates no file, invokes no
\* systemctl command and prints no message.
C1_PrivilegeGating ==
    ~is_root =>
        /\ fs = pre
        /\ \A tag \in EffectTags : ~Performed(tag)
        /\ \A i \in 1..Len(steps) :
              steps[i].fn \in Gated => steps[i].res = PermissionError
        /\ (pc = "idle" /\ top \in Gated) => ret = PermissionError

\* an unprivileged write(path) onto an existing file has returned Permission
C1_Witness ==
    /\ pc = "idle" /\ top = "write" /\ ~is_root
    /\ IsSome(fs[path])
    /\ ret.kind = "Permission"

\* C2: when a file exists at the install path as install_and_enable is
\* called, the call returns Error::Io("Service file exists"), the file system
\* stays as it was, and neither daemon-reload nor enable is invoked.
C2_AntiClobber ==
    (top = "install_and_enable" /\ IsSome(pre[InstallPath])) =>
        /\ pc \in {"install_and_enable", "idle"}
        /\ fs = pre
        /\ ~Performed("systemctl")
        /\ pc = "idle" => ret = Err("Io", "Service file exists")

\* root has called install_and_enable over an existing unit file
C2_Witness ==
    /\ pc = "idle" /\ top = "install_and_enable" /\ is_root
    /\ IsSome(pre[InstallPath])
    /\ ret.kind = "Io"

InstallOrder == <<"get_service_file_path", "write", "reload_systemd", "enable">>
\* where the caller stands before each of them
InstallPc == <<"install_and_enable", "write", "reload_systemd", "enable">>

\* C3: install_and_enable runs resolve-path, write, daemon-reload, enable in
\* this order; the first step that fails ends the call and no later step
\* runs; what completed steps did (the written file, the reload) stays; the
\* call returns Ok only if all four steps returned Ok.
C3_FixedOrderShortCircuit ==
    top = "install_and_enable" =>
        /\ Len(steps) <= 4
        /\ \A i \in 1..Len(steps) : steps[i].fn = InstallOrder[i]
        /\ \A i \in 1..Len(steps) : i < Len(steps) => steps[i].res = Ok
        /\ (Len(steps) > 0 /\ steps[Len(steps)].res # Ok) => pc = "idle"
        /\ pc = "idle" =>
              (ret = Ok <=> (Len(steps) = 4 /\ steps[4].res = Ok))
        /\ pc # "idle" => (Len(steps) < 4 /\ pc = InstallPc[Len(steps) + 1])
        /\ (Len(steps) >= 2 /\ steps[2].res = Ok) =>
              (path = InstallPath /\ fs[path] = Some(generate(config)))
        /\ (Len(steps) >= 3 /\ steps[3].res = Ok) => systemd.loaded

\* daemon-reload failed after the file was written: the call is over, enable
\* never ran and the file is still there
C3_Witness ==
    /\ pc = "idle" /\ top = "install_and_enable"
    /\ Len(steps) = 3 /\ steps[3].res.kind = "Command"
    /\ fs[InstallPath] = Some(generate(config))
    /\ ~systemd.loaded

\* C4: an Err returned by install_and_enable is the Err of its first failing
\* step, kind and message unchanged, and Ok is returned only when no step
\* failed.
C4_ErrorPassedThrough ==
    (top = "install_and_enable" /\ pc = "idle") =>
        /\ Len(steps) > 0
        /\ ret = steps[Len(steps)].res
        /\ \A i \in 1..Len(steps) : steps[i].res # Ok => i = Len(steps)

\* enable failed as the fourth step and install_and_enable returned Command
C4_Witness ==
    /\ pc = "idle" /\ top = "install_and_enable"
    /\ Len(steps) = 4 /\ steps[4].res.kind = "Command"
    /\ ret.kind = "Command"

\* C5: run by a non-root user, install_and_enable returns Error::Permission
\* whatever the file system holds.  (Violated: with a file at the install
\* path get_service_file_path returns Io before any privilege check.)
C5_NonRootInstallIsPermission ==
    (pc = "idle" /\ top = "install_and_enable" /\ ~is_root) =>
        ret.kind = "Permission"

ExitedZero == \E i \in 1..Len(log) : log[i] = <<"status", "exited", "0">>

\* C6: for a privileged caller enable, start and reload_systemd return Ok
\* exactly when systemctl exited with status zero, every failure is
\* Error::Command, and the confirmation is printed only with Ok.  (Violated:
\* a systemctl that cannot be spawned comes back as Error::Io.)
C6_CommandClassification ==
    (pc = "idle" /\ top \in {"enable", "start", "reload_systemd"} /\ is_root) =>
        /\ ret = Ok <=> ExitedZero
        /\ ret # Ok => ret.kind = "Command"
        /\ Performed("println") => ret = Ok

\* C7: after write(path) returns, the file at path holds the whole generated
\* text (Ok) or is as it was before the call (Err).  (Violated: File::create
\* truncates before write_all can fail.)
C7_AllOrNothingWrite ==
    (pc = "idle" /\ top = "write") =>
        IF ret = Ok THEN fs[path] = Some(generate(config))
                    ELSE fs[path] = pre[path]

LinesWith(t, key) == {i \in 1..Len(t) : Len(t[i]) = 2 /\ t[i][1] = key}
HasLine(t, key) == LinesWith(t, key) # {}
NonEmpty(o) == IsSome(o) /\ Len(Unwrap(o)) > 0

\* C9: the text has a WorkingDirectory=, User=, Group=, Restart=,
\* RestartSec=, StandardOutput= or WantedBy= line iff that field is Some, an
\* After= line iff after is Some and non-empty, Environment= lines iff
\* environment is Some and non-empty, and exactly one Description= and one
\* ExecStart= line.
C9_OnlyPresentFields ==
    IsSome(text) =>
        LET t == Unwrap(text) IN
        /\ HasLine(t, "WorkingDirectory=") <=> IsSome(config.working_directory)
        /\ HasLine(t, "User=") <=> IsSome(config.user)
        /\ HasLine(t, "Group=") <=> IsSome(config.group)
        /\ HasLine(t, "Restart=") <=> IsSome(config.restart)
        /\ HasLine(t, "RestartSec=") <=> IsSome(config.restart_sec)
        /\ HasLine(t, "StandardOutput=") <=> IsSome(config.log_file)
        /\ HasLine(t, "WantedBy=") <=> IsSome(config.wanted_by)
        /\ HasLine(t, "After=") <=> NonEmpty(config.after)
        /\ HasLine(t, "Environment=") <=> NonEmpty(config.environment)
        /\ Cardinality(LinesWith(t, "Description=")) = 1
        /\ Cardinality(LinesWith(t, "ExecStart=")) = 1

\* text generated for a configuration with after = Some([]), a user and an
\* environment set, restart and wanted_by cleared
C9_Witness ==
    /\ IsSome(text)
    /\ config.after = Some(<<>>)
    /\ IsSome(config.user) /\ NonEmpty(config.environment)
    /\ config.restart = None /\ config.wanted_by = None

FreshConfig == \E n \in Names, a \in Texts, b \in Texts : config = ServiceConfig_new(n, a, b)

\* C10: a configuration as ServiceConfig::new returns it has restart =
\* "always", restart_sec = 5, wanted_by = "multi-user.target" and None in
\* every other optional field; its text has the lines Restart=always,
\* RestartSec=5 and WantedBy=multi-user.target and no User=, Group= or
\* WorkingDirectory= line.
C10_Defaults ==
    FreshConfig =>
        /\ config.restart = Some("always")
        /\ config.restart_sec = Some(5)
        /\ config.wanted_by = Some("multi-user.target")
        /\ \A f \in OptionalFields \ {"restart", "restart_sec", "wanted_by"} :
              config[f] = None
        /\ IsSome(text) =>
              LET t == Unwrap(text) IN
              /\ \E i \in 1..Len(t) : t[i] = <<"Restart=", "always">>
              /\ \E i \in 1..Len(t) : t[i] = <<"RestartSec=", "5">>
              /\ \E i \in 1..Len(t) : t[i] = <<"WantedBy=", "multi-user.target">>
              /\ ~HasLine(t, "User=")
              /\ ~HasLine(t, "Group=")
              /\ ~HasLine(t, "WorkingDirectory=")

\* the text of a configuration nothing was set on after ServiceConfig::new
C10_Witness ==
    /\ FreshConfig
    /\ phase = "managed" /\ top = "generate"
    /\ IsSome(text)

\* C11: for a configuration ServiceConfig::new(name, a, b) the text has the
\* line Description=a and the line ExecStart=b, as test_minimal_service
\* asserts.  (Violated: the second parameter of new is exec_start and the
\* third is description.)
C11_SecondArgIsDescription ==
    \A n \in Names, a \in Texts, b \in Texts :
        (config = ServiceConfig_new(n, a, b) /\ IsSome(text)) =>
            LET t == Unwrap(text) IN
            /\ \E i \in 1..Len(t) : t[i] = <<"Description=", a>>
            /\ \E i \in 1..Len(t) : t[i] = <<"ExecStart=", b>>

\* the entries of a, first to last, with one space between neighbours
RECURSIVE SpaceSeparated(_)
SpaceSeparated(a) ==
    IF Len(a) = 1 THEN a[1]
    ELSE SpaceSeparated(SubSeq(a, 1, Len(a) - 1)) \o " " \o a[Len(a)]

EnvOf(c) == IF IsSome(c.environment) THEN Unwrap(c.environment) ELSE << >>

\* C12: the After= line is the after entries in input order with a space
\* between them; the Environment= lines are consecutive, one per pair of
\* the environment sequence, in input order, equal pairs and equal keys
\* kept: there are as many of them as the sequence is long.
C12_OrderPreserved ==
    IsSome(text) =>
        LET t == Unwrap(text)
            env == EnvOf(config)
            E == LinesWith(t, "Environment=")
        IN
        /\ NonEmpty(config.after) =>
              /\ HasLine(t, "After=")
              /\ \A i \in LinesWith(t, "After=") :
                    t[i][2] = SpaceSeparated(Unwrap(config.after))
        /\ Cardinality(E) = Len(env)
        /\ \A first \in E :
              (\A j \in E : first <= j) =>
                 \A k \in 1..Len(env) :
                    t[first + k - 1] =
                       <<"Environment=", "\"" \o env[k][1] \o "=" \o env[k][2] \o "\"">>

\* text for after = [postgresql.service, network.target] (not sorted) and an
\* environment that holds the same pair twice
C12_Witness ==
    /\ IsSome(text)
    /\ config.after = Some(<<"postgresql.service", "network.target">>)
    /\ config.environment = Some(<< <<"RUST_LOG", "info">>, <<"RUST_LOG", "info">> >>)
    /\ Cardinality(LinesWith(Unwrap(text), "Environment=")) = 2

StdErrLines(t) == {i \in 1..Len(t) : t[i] = <<"StandardError=", "inherit">>}

\* C13: the text has a StandardError=inherit line iff log_file is Some, and
\* then exactly one, right after the StandardOutput=append:<log_file> line.
C13_LogFilePairing ==
    IsSome(text) =>
        LET t == Unwrap(text) IN
        /\ StdErrLines(t) # {} <=> IsSome(config.log_file)
        /\ LinesWith(t, "StandardError=") = StdErrLines(t)
        /\ IsSome(config.log_file) =>
              /\ Cardinality(StdErrLines(t)) = 1
              /\ \A i \in StdErrLines(t) :
                    /\ i > 1
                    /\ t[i - 1] = <<"StandardOutput=", "append:" \o Unwrap(config.log_file)>>

\* one text with a log file, environment lines after the pair and
\* restart_sec cleared before it
C13_Witness ==
    /\ IsSome(text)
    /\ IsSome(config.log_file)
    /\ NonEmpty(config.environment)
    /\ config.restart_sec = None
    /\ StdErrLines(Unwrap(text)) # {}

\* the kinds of line in the order the layout gives them; "" is an empty line
Layout ==
    << "[Unit]", "Description=", "After=", "",
       "[Service]", "WorkingDirectory=", "User=", "Group=", "Restart=",
       "RestartSec=", "ExecStart=", "StandardOutput=", "StandardError=",
       "Environment=", "",
       "[Install]", "WantedBy=" >>

\* the place of line i of t in Layout, 0 if it has none: an empty line has
\* the place before the header that follows it
Place(t, i) ==
    IF t[i] = Blank
      THEN IF i < Len(t) /\ t[i + 1] = <<"[Service]">> THEN 4
           ELSE IF i < Len(t) /\ t[i + 1] = <<"[Install]">> THEN 15
           ELSE 0
      ELSE IF \E k \in 1..Len(Layout) : Layout[k] = t[i][1]
      THEN CHOOSE k \in 1..Len(Layout) : Layout[k] = t[i][1]
      ELSE 0

\* C14: the lines come in the order of Layout, absent fields skipped; only
\* Environment= may repeat; [Unit], [Service] and [Install] are there exactly
\* once whatever is set, and exactly one empty line stands before [Service]
\* and before [Install], none anywhere else.
C14_FixedLayout ==
    IsSome(text) =>
        LET t == Unwrap(text) IN
        /\ \A i \in 1..Len(t) : Place(t, i) # 0
        /\ \A i \in 1..(Len(t) - 1) :
              \/ Place(t, i) < Place(t, i + 1)
              \/ Place(t, i) = 14 /\ Place(t, i + 1) = 14
        /\ \A k \in {1, 2, 4, 5, 11, 15, 16} : \E i \in 1..Len(t) : Place(t, i) = k
        /\ t[1] = <<"[Unit]">>

\* a text whose [Install] section has no line and whose [Unit] section has
\* no After= line, with a log file and an environment
C14_Witness ==
    /\ IsSome(text)
    /\ config.wanted_by = None /\ config.after = None
    /\ IsSome(config.log_file) /\ NonEmpty(config.environment)
    /\ Unwrap(text)[Len(Unwrap(text))] = <<"[Install]">>

Commands == {i \in 1..Len(log) : log[i][1] = "systemctl"}
StartCommand == <<"systemctl", "start", config.name>>

\* C15: install_and_enable never runs the start command and leaves
\* systemd.active as it found it, so a successful install ends with the unit
\* enabled and not started by it; start() goes ahead whatever was written,
\* reloaded or enabled before, and the one command a privileged start()
\* runs is `systemctl start <name>`.
C15_NoAutoAdvance ==
    /\ [](top = "install_and_enable" =>
             /\ \A i \in Commands : log[i] # StartCommand
             /\ \A i \in 1..Len(steps) : steps[i].fn # "start"
             /\ (pc = "idle" /\ ret = Ok) => systemd.enabled)
    /\ []((top = "start" /\ pc = "idle" /\ is_root) =>
             /\ Cardinality(Commands) = 1
             /\ \A i \in Commands : log[i] = StartCommand)
    /\ [][top' = "install_and_enable" => systemd'.active = systemd.active]_vars

\* a privileged start() has run its command although no unit file is at the
\* install path and nothing was reloaded or enabled
C15_Witness ==
    /\ pc = "idle" /\ top = "start" /\ is_root
    /\ fs[InstallPath] = None
    /\ ~systemd.loaded /\ ~systemd.enabled
    /\ \E i \in Commands : log[i] = StartCommand

RootChecks == {i \in 1..Len(log) : log[i][1] = "is_root"}

\* C16: inside install_and_enable, write, reload_systemd and enable each
\* evaluate is_root() once more; a step that finds the privilege gone returns
\* Error::Permission, which ends the call, and has no effect of its own,
\* while the file written and the reload done by the steps before it stay.
C16_PerStepRevalidation ==
    top = "install_and_enable" =>
        /\ Cardinality(RootChecks) = (IF Len(steps) = 0 THEN 0 ELSE Len(steps) - 1)
        /\ \A i \in RootChecks :
              log[i][2] = "false" =>
                 /\ i = Len(log)
                 /\ pc = "idle"
                 /\ ret = PermissionError
                 /\ steps[Len(steps)].res = PermissionError
        /\ \A k \in 1..Len(steps) :
              steps[k].res = PermissionError =>
                 (k = Len(steps) /\ log[Len(log)] = <<"is_root", "false">>)
        /\ (Len(steps) >= 3 /\ steps[2].res = Ok) =>
              fs[InstallPath] = Some(generate(config))
        /\ (Len(steps) >= 4 /\ steps[3].res = Ok) => systemd.loaded

\* the privilege went away between daemon-reload and enable: enable returned
\* Permission, the file and the reload are still there
C16_Witness ==
    /\ pc = "idle" /\ top = "install_and_enable"
    /\ Len(steps) = 4 /\ steps[3].res = Ok /\ steps[4].res = PermissionError
    /\ fs[InstallPath] = Some(generate(config))
    /\ systemd.loaded /\ ~systemd.enabled
    /\ ~is_root

\* C17: with other actors free to create the file at any point of
\* install_and_enable, no step taken inside the call changes a file that is
\* already there: the call writes only where it creates.  (Violated: a file
\* created between Path::exists and File::create is truncated by
\* File::create.)
C17_NoClobberUnderInterleaving ==
    [][ (top = "install_and_enable" /\ pc # "idle") =>
           \A p \in Paths : IsSome(fs[p]) => fs'[p] = fs[p] ]_vars

\* C18: a privileged write(path) called directly never looks whether a file
\* is at path (get_service_file_path is no step of it and "Service file
\* exists" is never its error); once File::create has succeeded the file
\* holds a prefix of the generated text and nothing of what it held before,
\* and on Ok it holds exactly the generated text.
C18_DirectWriteTruncates ==
    (pc = "idle" /\ top = "write" /\ is_root) =>
        /\ Len(steps) = 1 /\ steps[1].fn = "write"
        /\ ret # Err("Io", "Service file exists")
        /\ Performed("File::create") =>
              \E k \in 0..Len(generate(config)) :
                 fs[path] = Some(SubSeq(generate(config), 1, k))
        /\ ret = Ok => fs[path] = Some(generate(config))

\* write() straight onto the install path, where a unit file already was,
\* has returned Ok and replaced it
C18_Witness ==
    /\ pc = "idle" /\ top = "write" /\ is_root
    /\ path = InstallPath
    /\ pre[path] = Some(OldUnit)
    /\ ret = Ok
    /\ fs[path] = Some(generate(config))

\* how many entries of the call's log are the effect e / begin with tag
Times(e) == Cardinality({i \in 1..Len(log) : log[i] = e})
TimesTagged(tag) == Cardinality({i \in 1..Len(log) : log[i][1] = tag})

\* C19: no retries.  In one call the file is created at most once and each
\* systemctl command is run at most once (write runs none; enable, start and
\* reload_systemd run one command at most; install_and_enable at most one
\* daemon-reload and one enable); no method is a step of the call twice, and
\* a step that failed is the last step of the call.
C19_NoRetries ==
    /\ TimesTagged("File::create") <= 1
    /\ TimesTagged("write_all") <= 1
    /\ Times(<<"systemctl", "daemon-reload">>) <= 1
    /\ Times(<<"systemctl", "enable", config.name>>) <= 1
    /\ Times(<<"systemctl", "start", config.name>>) <= 1
    /\ top = "write" => TimesTagged("systemctl") = 0
    /\ top \in {"enable", "start", "reload_systemd"} =>
          TimesTagged("systemctl") <= 1 /\ TimesTagged("File::create") = 0
    /\ top = "install_and_enable" =>
          TimesTagged("systemctl") <= 2 /\ Times(<<"systemctl", "start", config.name>>) = 0
    /\ \A i, j \in 1..Len(steps) : steps[i].fn = steps[j].fn => i = j
    /\ \A i \in 1..Len(steps) :
          steps[i].res.kind # "Ok" => i = Len(steps) /\ pc = "idle" /\ ret.kind # "Ok"

\* install_and_enable has failed in its last step, systemctl enable, after
\* one file creation, one daemon-reload and that one enable
C19_Witness ==
    /\ pc = "idle" /\ top = "install_and_enable"
    /\ Len(steps) = 4 /\ steps[4].fn = "enable" /\ steps[4].res.kind # "Ok"
    /\ TimesTagged("File::create") = 1
    /\ Times(<<"systemctl", "daemon-reload">>) = 1
    /\ Times(<<"systemctl", "enable", config.name>>) = 1
    /\ ret.kind = "Command"

\* c2 is c1 with field f holding Some(v) and every other field as it was
OnlyFieldSet(c1, c2, f, v) ==
    /\ DOMAIN c2 = DOMAIN c1
    /\ \A g \in DOMAIN c1 : c2[g] = IF g = f THEN Some(v) ELSE c1[g]

\* the sequences the setters of environment and after are tried with here
FewEnvs == SeqsUpTo(EnvPairs, 1) \cup { << <<"PORT", "8080">>, <<"RUST_LOG", "info">> >> }
FewAfters == SeqsUpTo(AfterNames, 1) \cup { <<"network.target", "postgresql.service">> }

\* each setter, applied to the configuration being built as it is now, sets
\* its own field to its argument whatever the field held, and nothing else
SettersFrame ==
    phase = "building" =>
    /\ \A v \in Dirs :
          OnlyFieldSet(config, ServiceConfig_working_directory(config, v), "working_directory", v)
    /\ \A v \in Users : OnlyFieldSet(config, ServiceConfig_user(config, v), "user", v)
    /\ \A v \in Groups : OnlyFieldSet(config, ServiceConfig_group(config, v), "group", v)
    /\ \A v \in RestartPolicies \cup {"always"} :
          OnlyFieldSet(config, ServiceConfig_restart(config, v), "restart", v)
    /\ \A v \in RestartSecs \cup {5} :
          OnlyFieldSet(config, ServiceConfig_restart_sec(config, v), "restart_sec", v)
    /\ \A v \in Targets \cup {"multi-user.target"} :
          OnlyFieldSet(config, ServiceConfig_wanted_by(config, v), "wanted_by", v)
    /\ \A v \in FewEnvs :
          OnlyFieldSet(config, ServiceConfig_environment(config, v), "environment", v)
    /\ \A v \in FewAfters :
          OnlyFieldSet(config, ServiceConfig_after(config, v), "after", v)
    /\ \A v \in LogFiles : OnlyFieldSet(config, ServiceConfig_log_file(config, v), "log_file", v)

\* the same setter called twice in a row: the result is that of the second
\* call alone
LastSetWins ==
    phase = "building" =>
    /\ \A v, w \in RestartPolicies \cup {"always"} :
          ServiceConfig_restart(ServiceConfig_restart(config, v), w)
             = ServiceConfig_restart(config, w)
    /\ \A v, w \in RestartSecs \cup {5} :
          ServiceConfig_restart_sec(ServiceConfig_restart_sec(config, v), w)
             = ServiceConfig_restart_sec(config, w)
    /\ \A v, w \in Targets \cup {"multi-user.target"} :
          ServiceConfig_wanted_by(ServiceConfig_wanted_by(config, v), w)
             = ServiceConfig_wanted_by(config, w)
    /\ \A v, w \in FewEnvs :
          ServiceConfig_environment(ServiceConfig_environment(config, v), w).environment = Some(w)
    /\ \A v, w \in FewAfters :
          ServiceConfig_after(ServiceConfig_after(config, v), w).after = Some(w)

\* a step changes the configuration only while it is being built, and then
\* in one optional field only
ConfigFrame ==
    config' # config =>
        /\ phase = "building" /\ phase' = "building"
        /\ config'.name = config.name
        /\ config'.description = config.description
        /\ config'.exec_start = config.exec_start
        /\ Cardinality({f \in OptionalFields : config'[f] # config[f]}) = 1

\* C20: builder frame.  Every setter sets exactly its own field to its
\* argument and leaves name, description, exec_start and every other field
\* as they were; set twice, a field holds the last value only (environment
\* and after are replaced, not extended); and SystemdService::new and the
\* operations of the manager leave the configuration unchanged.
C20_BuilderFrame ==
    /\ [](SettersFrame /\ LastSetWins)
    /\ [][ConfigFrame]_vars

\* a manager has generated the text of a configuration whose restart policy
\* was set over the default and whose environment and after were set
C20_Witness ==
    /\ phase = "managed" /\ top = "generate"
    /\ config = [ServiceConfig_new("myapp", "/usr/bin/sleep infinity", "Minimal Service")
                    EXCEPT !.restart = Some("on-failure"),
                           !.environment = Some(<< <<"PORT", "8080">> >>),
                           !.after = Some(<<"network.target">>)]
    /\ text = Some(generate(config))

====
